---- MODULE Spec2Model ----
(***************************************************************************)
(* Model of wikipedia-dump-converter: the INSERT-statement lexer           *)
(* (src/sql.rs), the page and link decoders (src/pages.rs, src/links.rs),  *)
(* the title cleaner and the triple writer (src/utils.rs) and the          *)
(* three-thread pipeline of pages_to_rdf / links_to_rdf (src/main.rs).     *)
(*                                                                         *)
(* Text is modelled as a sequence of one-character strings, so that        *)
(* formatting, parsing and regular-expression matching are computed on     *)
(* characters as the code computes them.                                   *)
(***************************************************************************)
EXTENDS Integers, Sequences, FiniteSets, TLC

VARIABLES
    \* ---- sql.rs: InsertParser and the loop that iterates it
    parser,        \* the InsertParser struct
    yielded,       \* rows the iterator has returned so far
    lex_status,    \* "idle" | "running" | "ended" | "panicked"
    last_call,     \* observation of the last call of next()
    stmt,          \* the statement the line was written from: rows of fields
    \* ---- pages.rs: one page through from_sql / to_rdf / from_rdf
    pg_pc, row, sql_res, rdf_text, rdf_lines, rdf_res,
    \* ---- pages.rs: pages_from_rdf
    ix_pc, stream, ix_pos, triples, pages, ix_res,
    \* ---- links.rs: Link::from_sql
    lk_pc, pageids, link_row, link_res,
    \* ---- main.rs: the pipeline
    mode, ignore_errors, encyclopedia,
    main_pc, nread, in_hand, readlog, result, first_err,
    err_at,        \* which read failed last, counted from 1 (0: none has)
    lines_q, lines_tx, lines_rx,
    parse_pc, parse_res, decoded,
    triples_q, triples_tx, triples_rx,
    write_pc, write_res, out_buf, out_file

lexVars  == <<parser, yielded, lex_status, last_call, stmt>>
pageVars == <<pg_pc, row, sql_res, rdf_text, rdf_lines, rdf_res>>
ixVars   == <<ix_pc, stream, ix_pos, triples, ix_res>>
linkVars == <<lk_pc, link_row, link_res>>
indexVars == <<pages, pageids>>
cfgVars  == <<mode, ignore_errors, encyclopedia>>
mainVars == <<main_pc, nread, err_at, in_hand, readlog, result, first_err>>
chanVars == <<lines_q, lines_tx, lines_rx, triples_q, triples_tx, triples_rx>>
parseVars == <<parse_pc, parse_res, decoded>>
writeVars == <<write_pc, write_res, out_buf, out_file>>
pipeVars == <<cfgVars, mainVars, chanVars, parseVars, writeVars>>
vars == <<lexVars, pageVars, ixVars, linkVars, indexVars, pipeVars>>
notLex   == <<pageVars, ixVars, linkVars, indexVars, pipeVars>>
notPage  == <<lexVars, ixVars, linkVars, indexVars, pipeVars>>
notIndex == <<lexVars, pageVars, linkVars, pipeVars>>
notLink  == <<lexVars, pageVars, ixVars, pipeVars>>

----------------------------------------------------------------------------
(* Bounds of the model *)

\* longest line handed to the lexer on its own
MaxLineLen == 5
\* longest raw title of a page row
MaxTitleLen == 2
\* most lines of a triple stream
MaxStreamLen == 4
\* most lines the producer reads from the dump
MaxLines == 4
\* longest field drawn for a well-formed statement
MaxFieldLen == 2
\* most lines handed to Page::from_rdf
MaxRdfLines == 3

----------------------------------------------------------------------------
(* Characters and text *)

BSLASH == "\\"
DQUOTE == "\""
SQUOTE == "'"
NEWLINE == "\n"

Digits == <<"0", "1", "2", "3", "4", "5", "6", "7", "8", "9">>
IsDigit(c) == \E i \in 1..10 : Digits[i] = c
DigitVal(c) == (CHOOSE i \in 1..10 : Digits[i] = c) - 1

\* the characters str::trim strips (Unicode White_Space; those the model uses)
IsSpace(c) == c \in {" ", "\t", "\n", "\r"}

RECURSIVE Flatten(_)
Flatten(ss) == IF ss = <<>> THEN <<>> ELSE Head(ss) \o Flatten(Tail(ss))

\* every sequence over S of length at most n
SeqsUpTo(S, n) == UNION {[1..k -> S] : k \in 0..n}

StartsWith(s, p) == Len(s) >= Len(p) /\ SubSeq(s, 1, Len(p)) = p
EndsWith(s, p) == Len(s) >= Len(p) /\ SubSeq(s, Len(s) - Len(p) + 1, Len(s)) = p

RECURSIVE TrimStart(_)
TrimStart(s) == IF s # <<>> /\ IsSpace(Head(s)) THEN TrimStart(Tail(s)) ELSE s
RECURSIVE TrimEnd(_)
TrimEnd(s) ==
    IF s # <<>> /\ IsSpace(s[Len(s)]) THEN TrimEnd(SubSeq(s, 1, Len(s) - 1)) ELSE s
Trim(s) == TrimEnd(TrimStart(s))

\* format!("{}", n) of an unsigned integer
RECURSIVE FmtUInt(_)
FmtUInt(n) == IF n < 10 THEN <<Digits[n + 1]>>
              ELSE FmtUInt(n \div 10) \o <<Digits[(n % 10) + 1]>>

RECURSIVE DigitsValue(_, _)
DigitsValue(s, acc) ==
    IF s = <<>> THEN acc ELSE DigitsValue(Tail(s), acc * 10 + DigitVal(Head(s)))

\* str::parse::<u64>() / ::<u32>(): an optional '+', then one or more ASCII
\* digits, nothing else; -1 stands for Err.  The inputs of the model have at
\* most three digits, so the type's upper limit is never the deciding case.
ParseUInt(s) ==
    LET body == IF s # <<>> /\ Head(s) = "+" THEN Tail(s) ELSE s
    IN IF body # <<>> /\ \A i \in 1..Len(body) : IsDigit(body[i])
       THEN DigitsValue(body, 0) ELSE -1

----------------------------------------------------------------------------
(* src/sql.rs: InsertParser *)

\* InsertParser::from_line
from_line(line) ==
    [data |-> line, state |-> "OutValue", curr_pos |-> 0,
     field_start |-> 0, field_end |-> 0, current_value |-> <<>>]

\* the slice taken one character too long: data[field_start..=field_end]
field_to_value_inclusive(p) ==
    [p EXCEPT !.current_value =
                  Append(@, SubSeq(p.data, p.field_start + 1, p.field_end + 1)),
              !.state = "InValue"]

\* InsertParser::field_to_value: data[field_start..field_end] joins the row
field_to_value(p) ==
    [p EXCEPT !.current_value =
                  Append(@, SubSeq(p.data, p.field_start + 1, p.field_end)),
              !.state = "InValue"]

\* One turn of the loop of next() is a record: the parser after it, the
\* local flag `escaped`, `ret` ("loop" when the loop goes on) and `adv`
\* (whether line 115 `curr_pos += 1` is reached).
Turn(p, escaped, ret, adv) ==
    [parser |-> p, escaped |-> escaped, ret |-> ret, adv |-> adv]

\* match arm OutValue
OutValueArm(p, escaped, c) ==
    IF c = "(" THEN Turn([p EXCEPT !.state = "InValue"], escaped, "loop", TRUE)
    ELSE IF c = ";" THEN Turn(p, escaped, "None", FALSE)
    ELSE Turn(p, escaped, "loop", TRUE)

\* the arm InValue with ';' taken for the first character of a plain field
InValueArmNoStop(p, escaped, c) ==
    IF c = ")" THEN
        Turn([p EXCEPT !.curr_pos = @ + 1, !.state = "OutValue"], escaped, "Some", FALSE)
    ELSE IF c = "," THEN Turn(p, escaped, "loop", TRUE)
    ELSE IF c = SQUOTE THEN
        Turn([p EXCEPT !.state = "InStrField", !.field_start = p.curr_pos + 1,
                       !.field_end = p.curr_pos + 1], escaped, "loop", TRUE)
    ELSE Turn([p EXCEPT !.state = "InField", !.field_start = p.curr_pos,
                        !.field_end = p.curr_pos], escaped, "loop", FALSE)

\* match arm InValue
InValueArm(p, escaped, c) ==
    IF c = ";" THEN Turn(p, escaped, "None", FALSE)
    ELSE IF c = ")" THEN
        Turn([p EXCEPT !.curr_pos = @ + 1, !.state = "OutValue"], escaped, "Some", FALSE)
    ELSE IF c = "," THEN Turn(p, escaped, "loop", TRUE)
    ELSE IF c = SQUOTE THEN
        Turn([p EXCEPT !.state = "InStrField", !.field_start = p.curr_pos + 1,
                       !.field_end = p.curr_pos + 1], escaped, "loop", TRUE)
    ELSE Turn([p EXCEPT !.state = "InField", !.field_start = p.curr_pos,
                        !.field_end = p.curr_pos], escaped, "loop", FALSE)

\* match arm InField
InFieldArm(p, escaped, c) ==
    IF c = "," \/ c = ")" THEN Turn(field_to_value(p), escaped, "loop", FALSE)
    ELSE Turn([p EXCEPT !.field_end = @ + 1], escaped, "loop", TRUE)

\* the arm InStrField without the flag `escaped`: every quote closes
InStrFieldArmNoEscape(p, escaped, c) ==
    IF c = SQUOTE THEN Turn(field_to_value(p), escaped, "loop", TRUE)
    ELSE Turn([p EXCEPT !.field_end = @ + 1], escaped, "loop", TRUE)

\* match arm InStrField
InStrFieldArm(p, escaped, c) ==
    IF escaped THEN Turn([p EXCEPT !.field_end = @ + 1], FALSE, "loop", TRUE)
    ELSE IF c = BSLASH THEN Turn([p EXCEPT !.field_end = @ + 1], TRUE, "loop", TRUE)
    ELSE IF c = SQUOTE THEN Turn(field_to_value(p), escaped, "loop", TRUE)
    ELSE Turn([p EXCEPT !.field_end = @ + 1], escaped, "loop", TRUE)

\* the body of the loop for the character c = data[curr_pos]
LoopBody(p, escaped, c) ==
    CASE p.state = "OutValue"   -> OutValueArm(p, escaped, c)
      [] p.state = "InValue"    -> InValueArm(p, escaped, c)
      [] p.state = "InField"    -> InFieldArm(p, escaped, c)
      [] p.state = "InStrField" -> InStrFieldArm(p, escaped, c)

\* One turn of the loop of next() from the state st = [parser, escaped,
\* semi, ret]: `semi` records the states in which the character read was
\* ';'.  Indexing data past its end panics.
LoopTurn(st) ==
    LET p == st.parser
    IN IF p.curr_pos >= Len(p.data) THEN [st EXCEPT !.ret = "panic"]
       ELSE LET c == p.data[p.curr_pos + 1]
                t == LoopBody(p, st.escaped, c)
            IN [parser |-> IF t.ret = "loop" /\ t.adv
                           THEN [t.parser EXCEPT !.curr_pos = @ + 1] ELSE t.parser,
                escaped |-> t.escaped,
                semi |-> IF c = ";" THEN st.semi \cup {p.state} ELSE st.semi,
                ret |-> t.ret]

\* up to n turns of the loop, stopping at the first return or panic; the
\* turns are run in two halves to keep the evaluation shallow
RECURSIVE LoopTurns(_, _)
LoopTurns(st, n) ==
    IF st.ret # "loop" \/ n = 0 THEN st
    ELSE IF n = 1 THEN LoopTurn(st)
    ELSE CHOOSE r \in {LoopTurns(half, n - (n \div 2)) :
                            half \in {LoopTurns(st, n \div 2)}} : TRUE

\* The loop of next().  No character is looked at more than twice (once to
\* switch state without advancing, once to advance), so 2 * Len(data) + 2
\* turns reach the return or the panic.
Loop(p, escaped, semi) ==
    LoopTurns([parser |-> p, escaped |-> escaped, semi |-> semi, ret |-> "loop"],
              2 * Len(p.data) + 2)

\* Iterator::next for InsertParser
next(p) == Loop([p EXCEPT !.current_value = <<>>], FALSE, {})

\* `for vals in parser`: every row of a line, and how the iteration ends
RECURSIVE Rows(_, _)
Rows(p, acc) ==
    LET r == next(p)
    IN IF r.ret = "Some" THEN Rows(r.parser, Append(acc, r.parser.current_value))
       ELSE [rows |-> acc, end |-> r.ret]
AllRows(line) == Rows(from_line(line), <<>>)

----------------------------------------------------------------------------
(* src/utils.rs: clean_title *)

RECURSIVE clean_title(_)
clean_title(title) ==
    IF title = <<>> THEN <<>>
    ELSE LET c == Head(title)
             rest == clean_title(Tail(title))
         IN IF c = "_" THEN <<" ">> \o rest
            ELSE IF c = BSLASH THEN rest
            ELSE IF c = DQUOTE THEN <<BSLASH, DQUOTE>> \o rest
            ELSE <<c>> \o rest

----------------------------------------------------------------------------
(* src/pages.rs: Page *)

\* the width of a row of the page table
PageFieldCount == 13

NamespaceWord == <<"n", "a", "m", "e", "s", "p", "a", "c", "e">>
TitleWord == <<"t", "i", "t", "l", "e">>

Ok(v)   == [ok |-> TRUE, val |-> v]
Err(e)  == [ok |-> FALSE, err |-> e]

\* the width tested with `<` for `!=`: longer rows pass
Page_from_sql_wide(values) ==
    IF Len(values) < PageFieldCount THEN Err("SQL")
    ELSE LET id == ParseUInt(values[1])
             namespace == ParseUInt(values[2])
         IN IF id = -1 THEN Err("SQL")
            ELSE IF namespace = -1 THEN Err("SQL")
            ELSE Ok([pageid |-> id, namespace |-> namespace,
                     title |-> clean_title(values[3])])

\* Page::from_sql
Page_from_sql(values) ==
    IF Len(values) # PageFieldCount THEN Err("SQL")
    ELSE LET id == ParseUInt(values[1])
             namespace == ParseUInt(values[2])
         IN IF id = -1 THEN Err("SQL")
            ELSE IF namespace = -1 THEN Err("SQL")
            ELSE Ok([pageid |-> id, namespace |-> namespace,
                     title |-> clean_title(values[3])])

\* Page::to_rdf: two triples in one String, a newline between them
Page_to_rdf(page) ==
    <<"<">> \o FmtUInt(page.pageid) \o <<">", " ", "<">> \o NamespaceWord
        \o <<">", " ", DQUOTE>> \o FmtUInt(page.namespace) \o <<DQUOTE, " ", ".">>
        \o <<NEWLINE>>
        \o <<"<">> \o FmtUInt(page.pageid) \o <<">", " ", "<">> \o TitleWord
        \o <<">", " ", DQUOTE>> \o page.title \o <<DQUOTE, " ", ".">>

\* BufRead::lines: the text cut at every newline, a carriage return before
\* the newline dropped, no empty line after a final newline
Lines(text) ==
    LET nl == {i \in 1..Len(text) : text[i] = NEWLINE}
        ends == IF text # <<>> /\ text[Len(text)] # NEWLINE
                THEN nl \cup {Len(text) + 1} ELSE nl
        end(k) == CHOOSE e \in ends : Cardinality({x \in ends : x < e}) = k - 1
        start(k) == IF k = 1 THEN 1 ELSE end(k - 1) + 1
        cut(l) == IF l # <<>> /\ l[Len(l)] = "\r" THEN SubSeq(l, 1, Len(l) - 1) ELSE l
    IN [k \in 1..Cardinality(ends) |-> cut(SubSeq(text, start(k), end(k) - 1))]

RECURSIVE LeadingDigits(_)
LeadingDigits(s) ==
    IF s # <<>> /\ IsDigit(Head(s)) THEN 1 + LeadingDigits(Tail(s)) ELSE 0

\* where the group "(.*)" of the pattern may end in r: before a double
\* quote, a space and one more character; '.' matches no newline
ValueEnds(r) ==
    {k \in 0..(Len(r) - 3) :
        /\ r[k + 1] = DQUOTE /\ r[k + 2] = " " /\ r[k + 3] # NEWLINE
        /\ \A i \in 1..k : r[i] # NEWLINE}

\* a reluctant group, "(.*?)": the shortest value
ShortestValue(r) ==
    LET K == ValueEnds(r)
    IN IF K = {} THEN Err("nomatch")
       ELSE Ok(SubSeq(r, 1, CHOOSE k \in K : \A j \in K : k <= j))

\* the greedy group "(.*)": the longest value
CapturedValue(r) ==
    LET K == ValueEnds(r)
    IN IF K = {} THEN Err("nomatch")
       ELSE Ok(SubSeq(r, 1, CHOOSE k \in K : \A j \in K : k >= j))

\* match_triple: ^<(\d+)> <(namespace|title)> "(.*)" .
match_triple(line) ==
    IF ~(line # <<>> /\ Head(line) = "<") THEN Err("nomatch")
    ELSE LET nd == LeadingDigits(Tail(line))
             a  == SubSeq(line, nd + 2, Len(line))
             pred == IF StartsWith(a, <<">", " ", "<">> \o NamespaceWord \o <<">", " ", DQUOTE>>)
                     THEN NamespaceWord
                     ELSE IF StartsWith(a, <<">", " ", "<">> \o TitleWord \o <<">", " ", DQUOTE>>)
                     THEN TitleWord
                     ELSE <<>>
         IN IF nd = 0 \/ pred = <<>> THEN Err("nomatch")
            ELSE LET v == CapturedValue(SubSeq(a, Len(pred) + 7, Len(a)))
                 IN IF ~v.ok THEN Err("nomatch")
                    ELSE Ok(<<SubSeq(line, 2, nd + 1), pred, v.val>>)

\* a line Page::from_rdf and pages_from_rdf pass over
Skipped(l) == l = <<>> \/ Head(l) = "#"

\* Page::from_rdf
Page_from_rdf(lines) ==
    LET kept == SelectSeq(lines, LAMBDA l : ~Skipped(l))
        tr == [i \in 1..Len(kept) |-> Trim(kept[i])]
    IN IF \E i \in 1..Len(tr) : ~StartsWith(tr[i], <<"<">>) \/ ~EndsWith(tr[i], <<".">>)
       THEN Err("RDF")
       ELSE IF Len(tr) < 2 THEN Err("RDF")
       ELSE LET first == match_triple(tr[1])
                second == match_triple(tr[2])
            IN IF ~first.ok \/ ~second.ok THEN Err("RDF")
               ELSE IF first.val[1] # second.val[1] THEN Err("RDF")
               ELSE LET id == ParseUInt(first.val[1])
                        fromFirst == first.val[2] = NamespaceWord
                        namespace == IF fromFirst THEN ParseUInt(first.val[3])
                                     ELSE ParseUInt(second.val[3])
                        title == IF fromFirst THEN second.val[3] ELSE first.val[3]
                    IN IF id = -1 \/ namespace = -1 THEN Err("RDF")
                       ELSE Ok([pageid |-> id, namespace |-> namespace,
                                title |-> title])

\* HashMap<(String, u32), Page>: a function from the keys it holds
EmptyMap == [k \in {} |-> k]
MapInsert(m, k, v) == [x \in (DOMAIN m) \cup {k} |-> IF x = k THEN v ELSE m[x]]
MapValues(m) == {m[k] : k \in DOMAIN m}
PageKey(page) == <<page.title, page.namespace>>

\* an item of reader.lines(): Ok(line) or Err(io error)
ReadOk(l) == [ok |-> TRUE, line |-> l]
ReadErr == [ok |-> FALSE, line |-> <<>>]

\* pages_from_rdf, one turn of `for line in reader.lines()`: the state
\* after it as [triples, pages, res], res = "none" while the loop goes on
pages_from_rdf_turn(item, trs, pgs) ==
    IF ~item.ok THEN [triples |-> trs, pages |-> pgs, res |-> "io"]
    ELSE IF Skipped(item.line) THEN [triples |-> trs, pages |-> pgs, res |-> "none"]
    ELSE IF Len(trs) = 2
         THEN LET page == Page_from_rdf(trs)
              IN IF ~page.ok THEN [triples |-> trs, pages |-> pgs, res |-> "RDF"]
                 ELSE [triples |-> <<item.line>>,
                       pages |-> MapInsert(pgs, PageKey(page.val), page.val),
                       res |-> "none"]
         ELSE [triples |-> Append(trs, item.line), pages |-> pgs, res |-> "none"]

\* links_to_rdf, line 174: the ids of the pages of the index
PageIdsOf(pgs) == {pg.pageid : pg \in MapValues(pgs)}

----------------------------------------------------------------------------
(* src/links.rs: Link *)

\* the width of a row of the pagelinks table
LinkFieldCount == 4

\* from_id not looked up in pageids
Link_from_sql_unchecked(pgs, ids, values) ==
    IF Len(values) # LinkFieldCount THEN Err("SQL")
    ELSE LET from_id == ParseUInt(values[1])
             to_namespace == ParseUInt(values[2])
             to_title == clean_title(values[3])
         IN IF from_id = -1 THEN Err("SQL")
            ELSE IF to_namespace = -1 THEN Err("SQL")
            ELSE IF <<to_title, to_namespace>> \notin DOMAIN pgs
                 THEN Err("PageNotFound")
            ELSE Ok([from_id |-> from_id,
                     to_id |-> pgs[<<to_title, to_namespace>>].pageid])

\* Link::from_sql
Link_from_sql(pgs, ids, values) ==
    IF Len(values) # LinkFieldCount THEN Err("SQL")
    ELSE LET from_id == ParseUInt(values[1])
         IN IF from_id = -1 THEN Err("SQL")
            ELSE IF from_id \notin ids
                 THEN (IF ParseUInt(values[4]) = -1 THEN Err("SQL")
                       ELSE Err("PageNotFound"))
            ELSE LET to_namespace == ParseUInt(values[2])
                     to_title == clean_title(values[3])
                 IN IF to_namespace = -1 THEN Err("SQL")
                    ELSE IF <<to_title, to_namespace>> \notin DOMAIN pgs
                         THEN Err("PageNotFound")
                    ELSE Ok([from_id |-> from_id,
                             to_id |-> pgs[<<to_title, to_namespace>>].pageid])

\* the triple written from the target to the source
Link_to_rdf_reversed(link) ==
    <<"<">> \o FmtUInt(link.to_id) \o <<">", " ", "<", "l", "i", "n", "k", "s", "t", "o",
        ">", " ", "<">> \o FmtUInt(link.from_id) \o <<">", " ", ".">>

\* Link::to_rdf
Link_to_rdf(link) ==
    <<"<">> \o FmtUInt(link.from_id) \o <<">", " ", "<", "l", "i", "n", "k", "s", "t", "o",
        ">", " ", "<">> \o FmtUInt(link.to_id) \o <<">", " ", ".">>

----------------------------------------------------------------------------
(* src/main.rs: the stages of pages_to_rdf and links_to_rdf *)

\* mpsc::sync_channel(3)
LineQueueCapacity == 3

InsertInto == <<"I", "N", "S", "E", "R", "T", " ", "I", "N", "T", "O">>

\* the closure with the filter looking at the namespace field of the row
\* before the row is decoded
PageWorkerRowFilterFirst(vals, ency) ==
    LET page == Page_from_sql(vals)
    IN IF ency /\ Len(vals) >= 2 /\ vals[2] # <<"0">>
       THEN [outcome |-> "Filtered", text |-> <<>>]
       ELSE IF ~page.ok THEN [outcome |-> "SQL", text |-> <<>>]
       ELSE [outcome |-> "Sent", text |-> Page_to_rdf(page.val)]

\* the closure of parsing_worker in pages_to_rdf, for one row: what becomes
\* of the row, and the text sent to the writer
PageWorkerRow(vals, ency) ==
    LET page == Page_from_sql(vals)
    IN IF ~page.ok THEN [outcome |-> "SQL", text |-> <<>>]
       ELSE IF ency /\ page.val.namespace # 0
            THEN [outcome |-> "Filtered", text |-> <<>>]
       ELSE [outcome |-> "Sent", text |-> Page_to_rdf(page.val)]

\* the closure with every LinkError returned, PageNotFound included
LinkWorkerRowStrict(vals, pgs, ids) ==
    LET link == Link_from_sql(pgs, ids, vals)
    IN IF link.ok THEN [outcome |-> "Sent", text |-> Link_to_rdf(link.val)]
       ELSE [outcome |-> "SQL", text |-> <<>>]

\* the closure of parsing_worker in links_to_rdf, for one row
LinkWorkerRow(vals, pgs, ids) ==
    LET link == Link_from_sql(pgs, ids, vals)
    IN IF link.ok THEN [outcome |-> "Sent", text |-> Link_to_rdf(link.val)]
       ELSE IF link.err = "PageNotFound"
            THEN [outcome |-> "PageNotFound", text |-> <<>>]
       ELSE [outcome |-> "SQL", text |-> <<>>]

WorkerRow(md, vals, ency, pgs, ids) ==
    IF md = "pages" THEN PageWorkerRow(vals, ency) ELSE LinkWorkerRow(vals, pgs, ids)

\* a send that is let through whatever the buffer holds
SendNeverBlocks(q, rx) == Len(q) >= 0 \/ ~rx

\* SyncSender::send returns at once when the buffer has room or the
\* receiver is gone, and blocks otherwise
SendReturns(q, rx) == Len(q) < LineQueueCapacity \/ ~rx

\* the buffer dropped unwritten
FlushedNothing(file, buf) == file

\* stream.flush(): what the BufWriter holds reaches the output
Flushed(file, buf) == file \o buf

----------------------------------------------------------------------------
(* Values of the variables a specification does not use *)

LexOff  == /\ parser = from_line(<<>>)
           /\ yielded = <<>>
           /\ lex_status = "idle"
           /\ last_call = [ret |-> "none", semi |-> {}]
           /\ stmt = <<>>
PageOff == /\ pg_pc = "off" /\ row = <<>> /\ sql_res = Err("none")
           /\ rdf_text = <<>> /\ rdf_lines = <<>>
           /\ rdf_res = Err("none")
IxOff   == /\ ix_pc = "off" /\ stream = <<>> /\ ix_pos = 0 /\ triples = <<>>
           /\ ix_res = "none"
LinkOff == /\ lk_pc = "off" /\ link_row = <<>>
           /\ link_res = Err("none")
IndexOff == pages = EmptyMap /\ pageids = {}
PipeOff == /\ mode = "off" /\ ignore_errors = FALSE /\ encyclopedia = FALSE
           /\ main_pc = "off" /\ nread = 0 /\ err_at = 0 /\ in_hand = "" /\ readlog = <<>>
           /\ result = "none" /\ first_err = "none"
           /\ lines_q = <<>> /\ lines_tx = FALSE /\ lines_rx = FALSE
           /\ parse_pc = "off" /\ parse_res = "none" /\ decoded = <<>>
           /\ triples_q = <<>> /\ triples_tx = FALSE /\ triples_rx = FALSE
           /\ write_pc = "off" /\ write_res = "none" /\ out_buf = <<>>
           /\ out_file = <<>>

----------------------------------------------------------------------------
(* The lexer iterated over one line: `for vals in parser` *)

LexAlphabet == {"(", ")", ",", SQUOTE, ";", BSLASH, "a"}

LexInit ==
    /\ \E line \in SeqsUpTo(LexAlphabet, MaxLineLen) : parser = from_line(line)
    /\ yielded = <<>>
    /\ lex_status = "running"
    /\ last_call = [ret |-> "none", semi |-> {}]
    /\ stmt = <<>>
    /\ PageOff /\ IxOff /\ LinkOff /\ IndexOff /\ PipeOff

\* one call of next() by the for loop, which stops at the first None
LexNext ==
    /\ lex_status = "running"
    /\ \E r \in {next(parser)} :
          /\ parser' = r.parser
          /\ last_call' = [ret |-> r.ret, semi |-> r.semi]
          /\ yielded' = IF r.ret = "Some"
                        THEN Append(yielded, r.parser.current_value) ELSE yielded
          /\ lex_status' = CASE r.ret = "Some"  -> "running"
                             [] r.ret = "None"  -> "ended"
                             [] r.ret = "panic" -> "panicked"
    /\ UNCHANGED stmt
    /\ UNCHANGED notLex

SpecLex == LexInit /\ [][LexNext]_vars

\* C10 (as stated): whenever next() reads ';' in InValue, InField or
\* InStrField, that call returns None and the iteration is over.
C10_SemicolonAbortsInEveryState ==
    (last_call.semi \cap {"InValue", "InField", "InStrField"} # {})
        => (last_call.ret = "None" /\ lex_status = "ended")

HasSemi(field) == \E i \in 1..Len(field) : field[i] = ";"

\* C10 (amended): a ';' read in InValue ends the iteration at once: the call
\* returns None with the parser still on that ';', and the row being built is
\* not among the rows yielded.  A ';' read in InField or InStrField ends
\* nothing: when the call returns a row, the ';' is a character of one of
\* its fields.
C10_SemicolonAbortsOnlyInRow ==
    /\ ("InValue" \in last_call.semi) =>
          /\ last_call.ret = "None"
          /\ lex_status = "ended"
          /\ parser.data[parser.curr_pos + 1] = ";"
          /\ parser.state = "InValue"
    /\ (last_call.ret = "Some" /\ last_call.semi \cap {"InField", "InStrField"} # {}) =>
          \E i \in 1..Len(parser.current_value) : HasSemi(parser.current_value[i])
    /\ (last_call.ret = "None") => (last_call.semi \cap {"OutValue", "InValue"} # {})

\* a ';' met in InValue ended the iteration: the row begun holds a field and
\* is not yielded, and the text after the ';' is not read
C10_Witness ==
    /\ "InValue" \in last_call.semi
    /\ lex_status = "ended"
    /\ parser.current_value # <<>>
    /\ yielded = <<>>
    /\ parser.curr_pos + 1 < Len(parser.data)

\* C11: on every line, terminated by ';' or not, the iteration ends with
\* None after finitely many rows: no call of next() reads data past its end
\* (which panics and takes the decode stage down), and the position never
\* leaves the line.
C11_LexerEndsNormally ==
    /\ lex_status # "panicked"
    /\ last_call.ret # "panic"
    /\ parser.curr_pos <= Len(parser.data)
    /\ Len(yielded) <= Len(parser.data)

----------------------------------------------------------------------------
(* One row of the page table decoded, serialized and read back *)

IdFields == {<<"1">>, <<"0", "7">>, <<"+", "2">>, <<"1", "0">>, <<>>, <<"x">>}
NsFields == {<<"0">>, <<"1", "2">>, <<"-", "1">>, <<" ", "0">>}
TitleAlphabet == {"a", "_", BSLASH, DQUOTE, " ", ".", "#", "<"}
Zeros(n) == [i \in 1..n |-> <<"0">>]

\* the fields after the title: 9, 10 or 11 of them, and 10 that are no numbers
Others(n) == [i \in 1..n |-> IF i % 2 = 1 THEN <<"x">> ELSE <<>>]
PageTails ==
    {Zeros(PageFieldCount - 4), Zeros(PageFieldCount - 3), Zeros(PageFieldCount - 2),
     Others(PageFieldCount - 3)}

PageRows ==
    {<<id, ns, t>> \o tail :
        id \in IdFields, ns \in NsFields,
        t \in SeqsUpTo(TitleAlphabet, MaxTitleLen),
        tail \in PageTails}

PageInit ==
    /\ pg_pc = "from_sql" /\ row \in PageRows
    /\ sql_res = Err("none") /\ rdf_text = <<>> /\ rdf_lines = <<>>
    /\ rdf_res = Err("none")
    /\ LexOff /\ IxOff /\ LinkOff /\ IndexOff /\ PipeOff

PgFromSql ==
    /\ pg_pc = "from_sql"
    /\ sql_res' = Page_from_sql(row)
    /\ pg_pc' = IF sql_res'.ok THEN "to_rdf" ELSE "done"
    /\ UNCHANGED <<row, rdf_text, rdf_lines, rdf_res>>
    /\ UNCHANGED notPage

PgToRdf ==
    /\ pg_pc = "to_rdf"
    /\ rdf_text' = Page_to_rdf(sql_res.val)
    /\ pg_pc' = "lines"
    /\ UNCHANGED <<row, sql_res, rdf_lines, rdf_res>>
    /\ UNCHANGED notPage

PgLines ==
    /\ pg_pc = "lines"
    /\ rdf_lines' = Lines(rdf_text)
    /\ pg_pc' = "from_rdf"
    /\ UNCHANGED <<row, sql_res, rdf_text, rdf_res>>
    /\ UNCHANGED notPage

PgFromRdf ==
    /\ pg_pc = "from_rdf"
    /\ rdf_res' = Page_from_rdf(rdf_lines)
    /\ pg_pc' = "done"
    /\ UNCHANGED <<row, sql_res, rdf_text, rdf_lines>>
    /\ UNCHANGED notPage

PageNext == PgFromSql \/ PgToRdf \/ PgLines \/ PgFromRdf

SpecPage == PageInit /\ [][PageNext]_vars

\* C2: for every 13-field row Page::from_sql accepts, the text of to_rdf is
\* two lines, Page::from_rdf succeeds on them, and the Page it returns has
\* the id, the namespace and the title of the Page from_sql returned.
C2_RoundTrip ==
    (pg_pc = "done" /\ sql_res.ok) =>
        /\ Len(rdf_lines) = 2
        /\ rdf_res.ok
        /\ rdf_res.val.pageid = sql_res.val.pageid
        /\ rdf_res.val.namespace = sql_res.val.namespace
        /\ rdf_res.val.title = sql_res.val.title

\* a row whose title holds a double quote and a space, and whose id is not
\* written the way to_rdf formats it, made the round trip
C2_Witness ==
    /\ pg_pc = "done" /\ sql_res.ok /\ rdf_res.ok
    /\ row[3] = <<DQUOTE, " ">>
    /\ row[1] = <<"0", "7">>
    /\ rdf_res.val.title = <<BSLASH, DQUOTE, " ">>

\* the text of an unsigned integer: digits, one at least, after at most one '+'
IsUnsignedText(s) ==
    \/ s # <<>> /\ \A i \in 1..Len(s) : IsDigit(s[i])
    \/ Len(s) >= 2 /\ s[1] = "+" /\ \A i \in 2..Len(s) : IsDigit(s[i])

\* its digits as a number is printed: no sign, no leading zero
RECURSIVE NoLeadingZeros(_)
NoLeadingZeros(s) ==
    IF Len(s) >= 2 /\ Head(s) \in {"0", "+"} THEN NoLeadingZeros(Tail(s)) ELSE s

\* what the claim says of one character of a title
NormalizedChar(c) ==
    IF c = "_" THEN <<" ">>
    ELSE IF c = BSLASH THEN <<>>
    ELSE IF c = DQUOTE THEN <<BSLASH, DQUOTE>>
    ELSE <<c>>
NormalizedTitle(t) == Flatten([i \in 1..Len(t) |-> NormalizedChar(t[i])])

\* <id> <pred> "value" .
AttributeTriple(id, pred, value) ==
    <<"<">> \o id \o <<">", " ", "<">> \o pred \o <<">", " ", DQUOTE>> \o value
        \o <<DQUOTE, " ", ".">>

\* C14: Page::from_sql succeeds exactly on the rows of 13 fields whose
\* fields 0 and 1 are unsigned integers, whatever the fields after the title
\* hold; the Page has the id of field 0, the namespace of field 1 and the
\* title of field 2 with '_' turned into a blank, backslashes removed and
\* each double quote preceded by a backslash; to_rdf gives two lines, the
\* namespace triple then the title triple.
C14_PageDecoding ==
    (pg_pc # "from_sql") =>
        /\ sql_res.ok <=> (/\ Len(row) = PageFieldCount
                           /\ IsUnsignedText(row[1]) /\ IsUnsignedText(row[2]))
        /\ ~sql_res.ok => sql_res.err = "SQL"
        /\ sql_res.ok =>
              /\ FmtUInt(sql_res.val.pageid) = NoLeadingZeros(row[1])
              /\ FmtUInt(sql_res.val.namespace) = NoLeadingZeros(row[2])
              /\ sql_res.val.title = NormalizedTitle(row[3])
              /\ pg_pc # "to_rdf" =>
                    rdf_text = AttributeTriple(NoLeadingZeros(row[1]), NamespaceWord,
                                               NoLeadingZeros(row[2]))
                               \o <<NEWLINE>>
                               \o AttributeTriple(NoLeadingZeros(row[1]), TitleWord,
                                                  NormalizedTitle(row[3]))
              /\ pg_pc \in {"from_rdf", "done"} => Len(rdf_lines) = 2

\* a row whose fields after the title are no numbers was decoded and
\* rendered: id 10, namespace 12, title `_"` become ` \"`
C14_Witness ==
    /\ pg_pc = "done" /\ sql_res.ok
    /\ row[1] = <<"1", "0">> /\ row[2] = <<"1", "2">> /\ row[3] = <<"_", DQUOTE>>
    /\ row[4] = <<"x">>
    /\ rdf_lines[1] = <<"<", "1", "0", ">", " ", "<", "n", "a", "m", "e", "s", "p", "a", "c",
                        "e", ">", " ", DQUOTE, "1", "2", DQUOTE, " ", ".">>
    /\ rdf_lines[2] = <<"<", "1", "0", ">", " ", "<", "t", "i", "t", "l", "e", ">", " ",
                        DQUOTE, " ", BSLASH, DQUOTE, DQUOTE, " ", ".">>

----------------------------------------------------------------------------
(* The Page Index built from a stream of triples: pages_from_rdf *)

ModelPages ==
    {[pageid |-> 1, namespace |-> 0, title |-> <<"a">>],
     [pageid |-> 2, namespace |-> 0, title |-> <<"b">>]}

\* the lines a serialized page is read back as
PageLines(page) == Lines(Page_to_rdf(page) \o <<NEWLINE>>)

IxItems ==
    {ReadOk(PageLines(pg)[i]) : pg \in ModelPages, i \in 1..2}
        \cup {ReadOk(<<>>), ReadOk(<<"#", "c">>), ReadOk(<<"<", "x", ".">>), ReadErr}

IxInit ==
    /\ ix_pc = "loop" /\ stream \in SeqsUpTo(IxItems, MaxStreamLen)
    /\ ix_pos = 0 /\ triples = <<>> /\ pages = EmptyMap /\ ix_res = "none"
    /\ pageids = {}
    /\ LexOff /\ PageOff /\ LinkOff /\ PipeOff

\* one turn of the loop of pages_from_rdf
IxLine ==
    /\ ix_pc = "loop" /\ ix_pos < Len(stream)
    /\ \E t \in {pages_from_rdf_turn(stream[ix_pos + 1], triples, pages)} :
          /\ triples' = t.triples
          /\ pages' = t.pages
          /\ ix_res' = t.res
          /\ ix_pc' = IF t.res = "none" THEN "loop" ELSE "done"
    /\ ix_pos' = ix_pos + 1
    /\ UNCHANGED <<stream, pageids>>
    /\ UNCHANGED notIndex

\* the stream is exhausted: Ok(pages)
IxReturn ==
    /\ ix_pc = "loop" /\ ix_pos = Len(stream)
    /\ ix_res' = "ok" /\ ix_pc' = "ids"
    /\ UNCHANGED <<stream, ix_pos, triples, pages, pageids>>
    /\ UNCHANGED notIndex

\* links_to_rdf collects the known ids
IxPageIds ==
    /\ ix_pc = "ids"
    /\ pageids' = PageIdsOf(pages)
    /\ ix_pc' = "done"
    /\ UNCHANGED <<stream, ix_pos, triples, pages, ix_res>>
    /\ UNCHANGED notIndex

IxNext == IxLine \/ IxReturn \/ IxPageIds

SpecIndex == IxInit /\ [][IxNext]_vars

\* the stream of the pages ps, each serialized with to_rdf, in order
StreamOf(ps) ==
    [i \in 1..(2 * Len(ps)) |-> ReadOk(PageLines(ps[(i + 1) \div 2])[2 - (i % 2)])]

DistinctKeys(ps) ==
    \A i, j \in 1..Len(ps) : i # j => PageKey(ps[i]) # PageKey(ps[j])

\* C1: built from the serialization of N >= 1 pages of pairwise distinct
\* (title, namespace), the index holds every one of the N pages, the last
\* included, each under its key.
C1_IndexComplete ==
    \A ps \in SeqsUpTo(ModelPages, MaxStreamLen \div 2) :
        (ix_pc = "done" /\ Len(ps) >= 1 /\ DistinctKeys(ps) /\ stream = StreamOf(ps)) =>
            /\ ix_res = "ok"
            /\ \A i \in 1..Len(ps) :
                  /\ PageKey(ps[i]) \in DOMAIN pages
                  /\ pages[PageKey(ps[i])] = ps[i]

\* the lines of a stream read without error that are neither empty nor
\* comments
UsableLines(st) ==
    LET kept == SelectSeq(st, LAMBDA item : ~Skipped(item.line))
    IN [i \in 1..Len(kept) |-> kept[i].line]

\* two lines that are not the two triples of one page
BadPair(a, b) ==
    LET x == match_triple(a)
        y == match_triple(b)
    IN ~x.ok \/ ~y.ok \/ x.val[1] # y.val[1]

\* C15: a stream read without I/O error whose usable lines, taken two by
\* two, leave a page with a single line (their number is odd), or hold a
\* pair with a line that is no triple or with two different ids, makes
\* pages_from_rdf fail with the RDF error.
C15_MalformedRejected ==
    (ix_pc = "done" /\ \A i \in 1..Len(stream) : stream[i].ok) =>
        LET u == UsableLines(stream)
        IN (\/ Len(u) % 2 = 1
            \/ \E k \in 1..(Len(u) \div 2) : BadPair(u[2 * k - 1], u[2 * k]))
               => ix_res = "RDF"

----------------------------------------------------------------------------
(* One row of the pagelinks table resolved against a Page Index *)

MapOf(pgs) == [k \in {PageKey(pg) : pg \in pgs} |->
                  CHOOSE pg \in pgs : PageKey(pg) = k]

LinkIndexes ==
    {EmptyMap,
     MapOf({[pageid |-> 1, namespace |-> 0, title |-> <<"a">>]}),
     MapOf({[pageid |-> 1, namespace |-> 0, title |-> <<"a">>],
            [pageid |-> 2, namespace |-> 1, title |-> <<"a", " ", "b">>]})}

LinkIdFields == {<<"1">>, <<"2">>, <<"3">>, <<"x">>, <<>>}
LinkNsFields == {<<"0">>, <<"1">>, <<"y">>, <<" ", "0">>}
LinkTitleFields == {<<"a">>, <<"a", "_", "b">>, <<"a", BSLASH>>, <<"b">>}
LinkLastFields == {<<"0">>, <<"z">>, <<>>}

LinkRows ==
    {<<f, ns, t>> : f \in LinkIdFields, ns \in LinkNsFields, t \in LinkTitleFields}
    \cup {<<f, ns, t, l>> : f \in LinkIdFields, ns \in LinkNsFields,
                             t \in LinkTitleFields, l \in LinkLastFields}
    \cup {<<f, ns, t, l, l>> : f \in LinkIdFields, ns \in LinkNsFields,
                                t \in LinkTitleFields, l \in LinkLastFields}

LinkInit ==
    /\ lk_pc = "from_sql" /\ link_row \in LinkRows /\ link_res = Err("none")
    /\ pages \in LinkIndexes /\ pageids = PageIdsOf(pages)
    /\ LexOff /\ PageOff /\ IxOff /\ PipeOff

LkFromSql ==
    /\ lk_pc = "from_sql"
    /\ link_res' = Link_from_sql(pages, pageids, link_row)
    /\ lk_pc' = "done"
    /\ UNCHANGED <<link_row, pages, pageids>>
    /\ UNCHANGED notLink

LinkNext == LkFromSql

SpecLink == LinkInit /\ [][LinkNext]_vars

\* the (normalized title, namespace) of a row whose namespace field parses
RowKey(values) == <<clean_title(values[3]), ParseUInt(values[2])>>

\* C6: for every 4-field row whose from_id and to_namespace parse, whatever
\* its fourth field holds, a Link is produced exactly when from_id is a known
\* id and (normalized title, namespace) is a key of the index, and every
\* other outcome is the recoverable PageNotFound.
C6_ResolutionTotal ==
    (/\ lk_pc = "done" /\ Len(link_row) = LinkFieldCount
     /\ ParseUInt(link_row[1]) # -1 /\ ParseUInt(link_row[2]) # -1) =>
        /\ link_res.ok <=> (/\ ParseUInt(link_row[1]) \in pageids
                            /\ RowKey(link_row) \in DOMAIN pages)
        /\ ~link_res.ok => link_res.err = "PageNotFound"

\* C7: a row that has not exactly 4 fields, or whose from_id or to_namespace
\* does not parse, gets the fatal SQL error, whether or not from_id is known
\* and the title is in the index.
C7_SchemaErrorFirst ==
    (/\ lk_pc = "done"
     /\ \/ Len(link_row) # LinkFieldCount
        \/ ParseUInt(link_row[1]) = -1
        \/ ParseUInt(link_row[2]) = -1) =>
        (~link_res.ok /\ link_res.err = "SQL")

----------------------------------------------------------------------------
(* The pipeline: producer (main thread), parsing_worker, writing_worker *)

RowText(fields) ==
    <<"(">> \o Flatten([i \in 1..Len(fields) |->
                          (IF i = 1 THEN <<>> ELSE <<",">>) \o fields[i]])
        \o <<")">>
Quoted(t) == <<SQUOTE>> \o t \o <<SQUOTE>>
PageRowText(id, ns, t, n) == RowText(<<id, ns, Quoted(t)>> \o Zeros(n))
Statement(rows, end) ==
    InsertInto \o <<" ">>
        \o Flatten([i \in 1..Len(rows) |->
                      (IF i = 1 THEN <<>> ELSE <<",">>) \o rows[i]])
        \o end

\* the title of Scenario B as the dump writes it
FooBarRaw == <<"F", "o", "o", "_", "B", "a", "r">>

\* The lines of the dumps.  A line is held in the queue, in the producer's
\* hand and in the log of lines read by its name; DumpLine gives its text.
DumpLineText(name) ==
    CASE name = "p_two_rows" ->
            Statement(<<PageRowText(<<"1">>, <<"0">>, <<"a">>, PageFieldCount - 3),
                        PageRowText(<<"2">>, <<"1">>, <<"b", "_">>, PageFieldCount - 3)>>,
                      <<";">>)
      [] name = "p_short_row" ->
            Statement(<<PageRowText(<<"3">>, <<"0">>, <<"c">>, PageFieldCount - 4),
                        PageRowText(<<"4">>, <<"0">>, <<"d">>, PageFieldCount - 3)>>,
                      <<";">>)
      [] name = "p_unterminated" ->
            Statement(<<PageRowText(<<"5">>, <<"0">>, <<"e">>, PageFieldCount - 3)>>, <<>>)
      [] name = "l_three_rows" ->
            Statement(<<RowText(<<<<"1">>, <<"1">>, Quoted(<<"a", "_", "b">>), <<"0">>>>),
                        RowText(<<<<"3">>, <<"0">>, Quoted(<<"a">>), <<"0">>>>),
                        RowText(<<<<"2">>, <<"0">>, Quoted(<<"a">>), <<"0">>>>)>>, <<";">>)
      [] name = "l_bad_id" ->
            Statement(<<RowText(<<<<"1">>, <<"0">>, Quoted(<<"z">>), <<"0">>>>),
                        RowText(<<<<"x">>, <<"0">>, Quoted(<<"a">>), <<"0">>>>),
                        RowText(<<<<"1">>, <<"0">>, Quoted(<<"a">>), <<"0">>>>)>>, <<";">>)
      [] name = "l_unterminated" ->
            Statement(<<RowText(<<<<"2">>, <<"1">>, Quoted(<<"a", "_", "b">>), <<"0">>>>)>>,
                      <<>>)
      [] name = "other" -> <<"-", "-", " ", "c">>
      [] name = "b_plain" ->
            Statement(<<RowText(<<<<"1", "0">>, <<"0">>, Quoted(FooBarRaw), <<"0">>>>)>>, <<";">>)
      [] name = "b_spaced" ->
            Statement(<<RowText(<<<<"1", "0">>, <<" ", "0">>,
                                  <<" ">> \o Quoted(FooBarRaw), <<" ", "0">>>>)>>, <<";">>)
      [] name = "b_spaced_last" ->
            Statement(<<RowText(<<<<"1", "0">>, <<"0">>, Quoted(FooBarRaw), <<" ", "0">>>>)>>,
                      <<";">>)
      [] name = "b_unknown_from" ->
            Statement(<<RowText(<<<<"1", "1">>, <<"0">>, Quoted(FooBarRaw), <<"0">>>>)>>, <<";">>)
      [] name = "b_other_title" ->
            Statement(<<RowText(<<<<"1", "0">>, <<"0">>, Quoted(<<"B", "a", "z">>), <<"0">>>>)>>,
                      <<";">>)
      [] name = "b_two_rows" ->
            Statement(<<RowText(<<<<"2", "0">>, <<"0">>, Quoted(<<"X">>), <<"0">>>>),
                        RowText(<<<<"1", "0">>, <<"0">>, Quoted(FooBarRaw), <<"0">>>>)>>, <<";">>)
      [] name = "f_ns0" ->
            Statement(<<PageRowText(<<"1">>, <<"0">>, <<"a">>, PageFieldCount - 3)>>, <<";">>)
      [] name = "f_ns2" ->
            Statement(<<PageRowText(<<"5">>, <<"2">>, <<"e">>, PageFieldCount - 3)>>, <<";">>)
      [] name = "f_ns1_ns0" ->
            Statement(<<PageRowText(<<"2">>, <<"1">>, <<"b">>, PageFieldCount - 3),
                        PageRowText(<<"1">>, <<"0">>, <<"a">>, PageFieldCount - 3)>>,
                      <<";">>)
      [] name = "f_short_ns1" ->
            Statement(<<PageRowText(<<"3">>, <<"1">>, <<"c">>, PageFieldCount - 4),
                        PageRowText(<<"1">>, <<"0">>, <<"a">>, PageFieldCount - 3)>>,
                      <<";">>)
      [] name = "f_short_ns0" ->
            Statement(<<PageRowText(<<"3">>, <<"0">>, <<"c">>, PageFieldCount - 4)>>, <<";">>)
      [] name = "f_bad_ns" ->
            Statement(<<PageRowText(<<"4">>, <<"x">>, <<"d">>, PageFieldCount - 3)>>, <<";">>)
      [] name = "f_bad_id_ns1" ->
            Statement(<<PageRowText(<<"x">>, <<"1">>, <<"d">>, PageFieldCount - 3),
                        PageRowText(<<"1">>, <<"0">>, <<"a">>, PageFieldCount - 3)>>,
                      <<";">>)

\* lines of a dump of the page table, and of the pagelinks table
PageDumpLines == {"p_two_rows", "p_short_row", "p_unterminated", "other"}
LinkDumpLines == {"l_three_rows", "l_bad_id", "l_unterminated", "other"}
\* lines of one pagelinks row or two, for the decode stage on its own
ScenarioLines == {"b_plain", "b_spaced", "b_spaced_last", "b_unknown_from",
                  "b_other_title", "b_two_rows"}
\* lines of the page table whose rows carry namespace 0 or another, and
\* decode or do not, for the decode stage of a page run on its own
FilterLines == {"f_ns0", "f_ns2", "f_ns1_ns0", "f_short_ns1", "f_short_ns0",
                "f_bad_ns", "f_bad_id_ns1"}
DumpTexts ==
    [name \in PageDumpLines \cup LinkDumpLines \cup ScenarioLines \cup FilterLines |->
        DumpLineText(name)]
DumpLine(name) == DumpTexts[name]
DumpLines(md) == IF md = "pages" THEN PageDumpLines ELSE LinkDumpLines

\* The Page Index of the link runs, as pages_from_rdf inserts its pages: the
\* page of id 3 comes first and the page of id 1, of the same title and
\* namespace, takes its place.
DisplacedPage == [pageid |-> 3, namespace |-> 0, title |-> <<"a">>]
RunPages ==
    <<DisplacedPage,
      [pageid |-> 1, namespace |-> 0, title |-> <<"a">>],
      [pageid |-> 2, namespace |-> 1, title |-> <<"a", " ", "b">>]>>
RECURSIVE InsertAll(_, _)
InsertAll(m, ps) ==
    IF ps = <<>> THEN m
    ELSE InsertAll(MapInsert(m, PageKey(Head(ps)), Head(ps)), Tail(ps))
RunIndex == InsertAll(EmptyMap, RunPages)

\* the state once both workers are spawned and the dump is open
PipeInit ==
    /\ mode \in {"pages", "links"}
    /\ ignore_errors \in BOOLEAN
    /\ encyclopedia \in (IF mode = "pages" THEN BOOLEAN ELSE {FALSE})
    /\ pages = (IF mode = "links" THEN RunIndex ELSE EmptyMap)
    /\ pageids = PageIdsOf(pages)
    /\ main_pc = "read" /\ nread = 0 /\ err_at = 0 /\ in_hand = "" /\ readlog = <<>>
    /\ result = "none" /\ first_err = "none"
    /\ lines_q = <<>> /\ lines_tx = TRUE /\ lines_rx = TRUE
    /\ parse_pc = "recv" /\ parse_res = "none" /\ decoded = <<>>
    /\ triples_q = <<>> /\ triples_tx = TRUE /\ triples_rx = TRUE
    /\ write_pc = "recv" /\ write_res = "none" /\ out_buf = <<>> /\ out_file = <<>>
    /\ LexOff /\ PageOff /\ IxOff /\ LinkOff

notPipeLex == <<yielded, lex_status, last_call, stmt, pageVars, ixVars, linkVars, indexVars, cfgVars>>
Running == main_pc # "exited"
NoteError(e) == IF first_err = "none" THEN e ELSE first_err

(* ---- producer: the loop over reader.lines() in the main thread ---- *)

\* the flag not looked at: every failed read returns
ReadErrorAlwaysFatal(ignore) == TRUE

\* `if ignore_errors { continue; } else { return Err(Box::new(e)); }`
ReadErrorIsFatal(ignore) == ~ignore

\* Ok(l), l not starting with INSERT INTO: continue
MainReadOther ==
    /\ main_pc = "read" /\ nread < MaxLines
    /\ \E l \in DumpLines(mode) : ~StartsWith(DumpLine(l), InsertInto)
    /\ nread' = nread + 1
    /\ UNCHANGED <<main_pc, err_at, in_hand, readlog, result, first_err>>
    /\ UNCHANGED <<chanVars, parseVars, writeVars, parser, notPipeLex>>

\* Ok(l), l an INSERT statement: go and send it
MainReadInsert ==
    /\ main_pc = "read" /\ nread < MaxLines
    /\ \E l \in DumpLines(mode) :
          /\ StartsWith(DumpLine(l), InsertInto)
          /\ in_hand' = l
          /\ readlog' = Append(readlog, l)
    /\ nread' = nread + 1
    /\ main_pc' = "send"
    /\ UNCHANGED <<err_at, result, first_err>>
    /\ UNCHANGED <<chanVars, parseVars, writeVars, parser, notPipeLex>>

\* Err(e): continue when ignore_errors, else return Err(e), which drops
\* lines_tx and detaches the two workers
MainReadErr ==
    /\ main_pc = "read" /\ nread < MaxLines
    /\ nread' = nread + 1
    /\ err_at' = nread'
    /\ IF ~ReadErrorIsFatal(ignore_errors)
       THEN UNCHANGED <<main_pc, result, first_err, lines_tx>>
       ELSE /\ main_pc' = "returned" /\ result' = "io"
            /\ first_err' = NoteError("io")
            /\ lines_tx' = FALSE
    /\ UNCHANGED <<in_hand, readlog, lines_q, lines_rx, triples_q, triples_tx, triples_rx>>
    /\ UNCHANGED <<parseVars, writeVars, parser, notPipeLex>>

\* lines_tx.send(l) returns Ok: the line is queued
MainSend ==
    /\ main_pc = "send" /\ SendReturns(lines_q, lines_rx) /\ lines_rx
    /\ lines_q' = Append(lines_q, in_hand)
    /\ in_hand' = ""
    /\ main_pc' = "read"
    /\ UNCHANGED <<nread, err_at, readlog, result, first_err>>
    /\ UNCHANGED <<lines_tx, lines_rx, triples_q, triples_tx, triples_rx>>
    /\ UNCHANGED <<parseVars, writeVars, parser, notPipeLex>>

\* lines_tx.send(l) returns Err, the receiver being gone: break, then
\* drop(lines_tx)
MainSendFails ==
    /\ main_pc = "send" /\ SendReturns(lines_q, lines_rx) /\ ~lines_rx
    /\ in_hand' = ""
    /\ lines_tx' = FALSE
    /\ main_pc' = "join_parse"
    /\ UNCHANGED <<nread, err_at, readlog, result, first_err>>
    /\ UNCHANGED <<lines_q, lines_rx, triples_q, triples_tx, triples_rx>>
    /\ UNCHANGED <<parseVars, writeVars, parser, notPipeLex>>

\* the input is exhausted: the loop ends, drop(lines_tx)
MainEof ==
    /\ main_pc = "read"
    /\ lines_tx' = FALSE
    /\ main_pc' = "join_parse"
    /\ UNCHANGED <<nread, err_at, in_hand, readlog, result, first_err>>
    /\ UNCHANGED <<lines_q, lines_rx, triples_q, triples_tx, triples_rx>>
    /\ UNCHANGED <<parseVars, writeVars, parser, notPipeLex>>

\* parsing_worker.join().expect(..)?
MainJoinParse ==
    /\ main_pc = "join_parse" /\ parse_pc = "done"
    /\ CASE parse_res = "panic"  -> main_pc' = "panicked" /\ result' = "panic"
         [] parse_res = "schema" -> main_pc' = "returned" /\ result' = "schema"
         [] parse_res = "ok"     -> main_pc' = "join_write" /\ result' = result
    /\ UNCHANGED <<nread, err_at, in_hand, readlog, first_err>>
    /\ UNCHANGED <<chanVars, parseVars, writeVars, parser, notPipeLex>>

\* writing_worker.join().expect(..)?; Ok(())
MainJoinWrite ==
    /\ main_pc = "join_write" /\ write_pc = "done"
    /\ main_pc' = "returned"
    /\ result' = IF write_res = "ok" THEN "ok" ELSE "writer"
    /\ UNCHANGED <<nread, err_at, in_hand, readlog, first_err>>
    /\ UNCHANGED <<chanVars, parseVars, writeVars, parser, notPipeLex>>

\* main: exit(0) or exit(1) after run returns, or the process ending on the
\* main thread's panic; the workers still running end with it
MainExit ==
    /\ main_pc \in {"returned", "panicked"}
    /\ main_pc' = "exited"
    /\ UNCHANGED <<nread, err_at, in_hand, readlog, result, first_err>>
    /\ UNCHANGED <<chanVars, parseVars, writeVars, parser, notPipeLex>>

(* ---- parsing_worker ---- *)

\* lines_rx.recv() returns a line: a parser is made for it
ParseRecv ==
    /\ Running /\ parse_pc = "recv" /\ lines_q # <<>>
    /\ parser' = from_line(DumpLine(Head(lines_q)))
    /\ lines_q' = Tail(lines_q)
    /\ parse_pc' = "rows"
    /\ UNCHANGED <<parse_res, decoded>>
    /\ UNCHANGED <<lines_tx, lines_rx, triples_q, triples_tx, triples_rx>>
    /\ UNCHANGED <<mainVars, writeVars, notPipeLex>>

\* lines_rx.recv() returns Err, the queue being empty and its sender gone:
\* the worker returns Ok(()), dropping lines_rx and triples_tx
ParseClosed ==
    /\ Running /\ parse_pc = "recv" /\ lines_q = <<>> /\ ~lines_tx
    /\ parse_pc' = "done" /\ parse_res' = "ok"
    /\ lines_rx' = FALSE /\ triples_tx' = FALSE
    /\ UNCHANGED <<decoded, parser, lines_q, lines_tx, triples_q, triples_rx>>
    /\ UNCHANGED <<mainVars, writeVars, notPipeLex>>

\* one turn of `for vals in parser`: next(), then the row decoded and its
\* triples sent
ParseRow ==
    /\ Running /\ parse_pc = "rows"
    /\ \E r \in {next(parser)} :
       \E d \in {WorkerRow(mode, r.parser.current_value, encyclopedia, pages, pageids)} :
          /\ parser' = r.parser
          /\ CASE r.ret = "None" ->
                    \* the line is done
                    /\ parse_pc' = "recv"
                    /\ UNCHANGED <<parse_res, decoded, lines_q, lines_rx, triples_q,
                                   triples_tx, first_err>>
               [] r.ret = "panic" ->
                    \* index out of bounds: the thread unwinds
                    /\ parse_pc' = "done" /\ parse_res' = "panic"
                    /\ lines_rx' = FALSE /\ triples_tx' = FALSE
                    /\ lines_q' = <<>>
                    /\ UNCHANGED <<decoded, triples_q, first_err>>
               [] r.ret = "Some" /\ d.outcome = "SQL" ->
                    \* return Err(e)
                    /\ parse_pc' = "done" /\ parse_res' = "schema"
                    /\ first_err' = NoteError("schema")
                    /\ lines_rx' = FALSE /\ triples_tx' = FALSE
                    /\ lines_q' = <<>>
                    /\ decoded' = Append(decoded, d.outcome)
                    /\ UNCHANGED triples_q
               [] r.ret = "Some" /\ d.outcome \in {"Filtered", "PageNotFound"} ->
                    \* continue
                    /\ decoded' = Append(decoded, d.outcome)
                    /\ UNCHANGED <<parse_pc, parse_res, lines_q, lines_rx, triples_q,
                                   triples_tx, first_err>>
               [] r.ret = "Some" /\ d.outcome = "Sent" /\ triples_rx ->
                    \* triples_tx.send(..).unwrap()
                    /\ triples_q' = Append(triples_q, d.text)
                    /\ decoded' = Append(decoded, d.outcome)
                    /\ UNCHANGED <<parse_pc, parse_res, lines_q, lines_rx,
                                   triples_tx, first_err>>
               [] r.ret = "Some" /\ d.outcome = "Sent" /\ ~triples_rx ->
                    \* send returns Err, the writer being gone: unwrap panics
                    /\ parse_pc' = "done" /\ parse_res' = "panic"
                    /\ lines_rx' = FALSE /\ triples_tx' = FALSE
                    /\ lines_q' = <<>>
                    /\ decoded' = Append(decoded, "Unsent")
                    /\ UNCHANGED <<triples_q, first_err>>
    /\ UNCHANGED <<main_pc, nread, err_at, in_hand, readlog, result, lines_tx, triples_rx>>
    /\ UNCHANGED <<writeVars, notPipeLex>>

(* ---- writing_worker: write_triples ---- *)

\* rx.recv() returns a triple: stream.write(triple)?; stream.write(b"\n")?
WriteTriple ==
    /\ Running /\ write_pc = "recv" /\ triples_q # <<>>
    /\ triples_q' = Tail(triples_q)
    /\ \E failing \in {"none", "first", "second"} :
          \* on an error the BufWriter is dropped with what it holds
          /\ out_buf' = IF failing = "none"
                        THEN out_buf \o <<Head(triples_q), <<NEWLINE>>>> ELSE <<>>
          /\ IF failing = "none"
             THEN UNCHANGED <<write_pc, write_res, triples_rx, first_err>>
             ELSE /\ write_pc' = "done" /\ write_res' = "err"
                  /\ triples_rx' = FALSE
                  /\ first_err' = NoteError("writer")
    /\ UNCHANGED <<out_file, lines_q, lines_tx, lines_rx, triples_tx>>
    /\ UNCHANGED <<main_pc, nread, err_at, in_hand, readlog, result>>
    /\ UNCHANGED <<parseVars, parser, notPipeLex>>

\* rx.recv() returns Err, the queue being empty and its sender gone:
\* stream.flush()?; Ok(())
WriteClosed ==
    /\ Running /\ write_pc = "recv" /\ triples_q = <<>> /\ ~triples_tx
    /\ write_pc' = "done"
    /\ triples_rx' = FALSE
    /\ \E flushes \in BOOLEAN :
          IF flushes
          THEN /\ out_file' = Flushed(out_file, out_buf) /\ out_buf' = <<>>
               /\ write_res' = "ok" /\ UNCHANGED first_err
          ELSE /\ write_res' = "err" /\ first_err' = NoteError("writer")
               /\ out_buf' = <<>> /\ UNCHANGED out_file
    /\ UNCHANGED <<lines_q, lines_tx, lines_rx, triples_q, triples_tx>>
    /\ UNCHANGED <<main_pc, nread, err_at, in_hand, readlog, result>>
    /\ UNCHANGED <<parseVars, parser, notPipeLex>>

PipeNext ==
    \/ MainReadOther \/ MainReadInsert \/ MainReadErr \/ MainSend \/ MainSendFails
    \/ MainEof \/ MainJoinParse \/ MainJoinWrite \/ MainExit
    \/ ParseRecv \/ ParseClosed \/ ParseRow
    \/ WriteTriple \/ WriteClosed

SpecPipe == PipeInit /\ [][PipeNext]_vars

\* The three stages are threads of one process: each of them that can take
\* a step takes one in the end.
MainStep ==
    \/ MainReadOther \/ MainReadInsert \/ MainReadErr \/ MainSend \/ MainSendFails
    \/ MainEof \/ MainJoinParse \/ MainJoinWrite \/ MainExit
ParseStep == ParseRecv \/ ParseClosed \/ ParseRow
WriteStep == WriteTriple \/ WriteClosed

SpecPipeFair ==
    /\ PipeInit /\ [][PipeNext]_vars
    /\ WF_vars(MainStep) /\ WF_vars(ParseStep) /\ WF_vars(WriteStep)

----------------------------------------------------------------------------
(* Claims about the pipeline *)

\* C3: when pages_to_rdf or links_to_rdf returns a read error or a decode
\* error, the line queue is closed, the decode stage has terminated and the
\* writer has drained its queue, flushed and terminated.
C3_ErrorAfterStagesFinished ==
    (main_pc = "returned" /\ result \in {"io", "schema"}) =>
        /\ ~lines_tx
        /\ parse_pc = "done"
        /\ write_pc = "done" /\ triples_q = <<>> /\ out_buf = <<>>

\* C4: the first fatal error of any stage (read error in default mode,
\* decode error, writer failure) is the error the orchestrator returns; when
\* the writer fails first, the run ends by returning the writer's error, not
\* by a panic and not with another stage's error.
C4_FirstErrorReturned ==
    (main_pc \in {"returned", "panicked"} /\ first_err # "none") =>
        (main_pc = "returned" /\ result = first_err)

\* what the decoders make of a row, by the severity of their errors
ExpectedRow(md, ency, vals) ==
    IF md = "pages"
    THEN LET page == Page_from_sql(vals)
         IN IF ~page.ok THEN [outcome |-> "SQL", text |-> <<>>]
            ELSE IF ency /\ page.val.namespace # 0
                 THEN [outcome |-> "Filtered", text |-> <<>>]
            ELSE [outcome |-> "Sent", text |-> Page_to_rdf(page.val) \o <<NEWLINE>>]
    ELSE LET link == Link_from_sql(RunIndex, PageIdsOf(RunIndex), vals)
         IN IF link.ok
            THEN [outcome |-> "Sent", text |-> Link_to_rdf(link.val) \o <<NEWLINE>>]
            ELSE [outcome |-> link.err, text |-> <<>>]

\* for every line of the dumps: its rows, decoded
ExpectedOfLine ==
    [md \in {"pages", "links"}, ency \in BOOLEAN, name \in PageDumpLines \cup LinkDumpLines |->
        LET rows == AllRows(DumpLine(name)).rows
        IN [i \in 1..Len(rows) |-> ExpectedRow(md, ency, rows[i])]]

\* the outcomes of the rows of the lines ls, in order
ExpectedOutcomes(ls) ==
    Flatten([k \in 1..Len(ls) |->
        LET e == ExpectedOfLine[mode, encyclopedia, ls[k]]
        IN [i \in 1..Len(e) |-> e[i].outcome]])

\* the text of the triples of the lines ls, in order
ExpectedOutput(ls) ==
    Flatten([k \in 1..Len(ls) |->
        LET e == ExpectedOfLine[mode, encyclopedia, ls[k]]
        IN Flatten([i \in 1..Len(e) |-> e[i].text])])

DecodedAsExpected ==
    LET e == ExpectedOutcomes(readlog)
    IN /\ Len(decoded) <= Len(e)
       /\ \A i \in 1..Len(decoded) :
             \/ decoded[i] = e[i]
             \/ decoded[i] = "Unsent" /\ e[i] = "Sent" /\ i = Len(decoded)
       /\ parse_res = "ok" => Len(decoded) = Len(e)

SchemaErrorStops ==
    /\ \A i \in 1..Len(decoded) : decoded[i] = "SQL" => i = Len(decoded)
    /\ (parse_res = "schema") <=> (decoded # <<>> /\ decoded[Len(decoded)] = "SQL")
    /\ (parse_res = "schema") =>
          /\ parse_pc = "done"
          /\ result \in {"none", "io", "schema"}
          /\ main_pc # "join_write"

C9_OutputInOrder ==
    (result = "ok") =>
        /\ Flatten(out_file) = ExpectedOutput(readlog)
        /\ out_buf = <<>> /\ triples_q = <<>> /\ lines_q = <<>>

\* a page run with the filter on returned success after two lines of two
\* rows each, one row of each filtered out
C9_Witness ==
    /\ result = "ok" /\ mode = "pages" /\ encyclopedia
    /\ readlog = <<"p_two_rows", "p_two_rows">>
    /\ decoded = <<"Sent", "Filtered", "Sent", "Filtered">>
    /\ Len(out_file) = 4

\* C17: a failed read in default mode ends the reading and the run returns
\* the I/O error; in ignore-errors mode it changes nothing but the count of
\* items read: the producer reads on, each matching line it reads is held
\* until it is pushed to the decode stage (or the decode stage is gone), and
\* a run that fails has another cause than the read.
C17_ReadFailurePolicy ==
    /\ [](/\ (~ignore_errors /\ err_at # 0) =>
                (/\ main_pc \in {"returned", "exited"} /\ result = "io"
                 /\ nread = err_at /\ in_hand = "")
          /\ ignore_errors =>
                (/\ result # "io" /\ first_err # "io"
                 /\ result \notin {"none", "ok"} =>
                        (parse_res \in {"schema", "panic"} \/ write_res = "err"))
          /\ (main_pc = "send") <=> (in_hand # ""))
    /\ [][/\ (err_at' # err_at) =>
                (/\ main_pc = "read" /\ nread' = nread + 1
                 /\ readlog' = readlog /\ lines_q' = lines_q
                 /\ IF ignore_errors
                    THEN /\ main_pc' = "read" /\ lines_tx' /\ result' = result
                         /\ first_err' = first_err
                    ELSE main_pc' = "returned" /\ result' = "io")
          /\ (~ignore_errors /\ err_at # 0) =>
                (nread' = nread /\ readlog' = readlog /\ Len(lines_q') <= Len(lines_q))
          /\ (readlog' # readlog) =>
                (/\ main_pc' = "send" /\ readlog' = Append(readlog, in_hand')
                 /\ in_hand' # "")
          /\ (ignore_errors /\ main_pc = "send" /\ main_pc' # "send") =>
                (IF lines_rx THEN main_pc' = "read" /\ lines_q' = Append(lines_q, in_hand)
                 ELSE main_pc' = "join_parse")
          /\ (ignore_errors /\ main_pc = "read" /\ main_pc' # "read") =>
                main_pc' \in {"send", "join_parse"}
        ]_vars

\* in ignore-errors mode the first read failed, the line read after it was
\* pushed and decoded, and the run returned success with its triples
C17_Witness ==
    /\ ignore_errors /\ mode = "pages" /\ ~encyclopedia
    /\ err_at = 1 /\ nread = 2 /\ readlog = <<"p_two_rows">>
    /\ decoded = <<"Sent", "Sent">>
    /\ result = "ok" /\ Len(out_file) = 4

\* the triples sent to the writer so far that it has not lost: those
\* queued, buffered and written
EmittedTriples ==
    {triples_q[i] : i \in 1..Len(triples_q)}
        \cup ({out_buf[i] : i \in 1..Len(out_buf)} \ {<<NEWLINE>>})
        \cup ({out_file[i] : i \in 1..Len(out_file)} \ {<<NEWLINE>>})

\* <a> <linksto> <b> . for a and b among ids
LinkTriplesOver(ids) == {Link_to_rdf([from_id |-> a, to_id |-> b]) : a, b \in ids}

\* C18: in a link run every triple emitted is <a> <linksto> <b> . with a
\* and b known ids; the known ids are the ids of the pages the index maps
\* to, the id of a page displaced by a later page of the same title and
\* namespace not among them; no step changes the index or the known ids.
C18_LinkInvariant ==
    /\ [](mode = "links" =>
            /\ pageids = {pages[k].pageid : k \in DOMAIN pages}
            /\ DisplacedPage.pageid \notin pageids
            /\ EmittedTriples \subseteq LinkTriplesOver(pageids))
    /\ [][pages' = pages /\ pageids' = pageids]_vars

\* a link run returned success: two rows gave their triples, and the row
\* from the displaced page of id 3 between them gave none
C18_Witness ==
    /\ mode = "links" /\ result = "ok"
    /\ readlog = <<"l_three_rows">>
    /\ decoded = <<"Sent", "PageNotFound", "Sent">>
    /\ out_file = <<Link_to_rdf([from_id |-> 1, to_id |-> 2]), <<NEWLINE>>,
                    Link_to_rdf([from_id |-> 2, to_id |-> 1]), <<NEWLINE>>>>

\* the producer has left its loop
ProducerStopped == main_pc \notin {"read", "send"}

\* every run ends: the process exits
RunTerminates == <>(main_pc = "exited")

\* a producer in send whose receiver is gone leaves send
BlockedProducerReleased == (main_pc = "send" /\ ~lines_rx) ~> (main_pc # "send")

\* C20: under fair scheduling every run terminates; once the producer has
\* stopped the line queue is closed, the decode stage empties it and ends,
\* and the writer empties the triple queue and ends; a producer blocked in
\* send when the decode stage aborts is released.
C20_TerminatesDrained ==
    /\ RunTerminates
    /\ [](ProducerStopped => ~lines_tx)
    /\ ProducerStopped ~> (parse_pc = "done" /\ lines_q = <<>>)
    /\ ProducerStopped ~> (write_pc = "done" /\ triples_q = <<>>)
    /\ BlockedProducerReleased

----------------------------------------------------------------------------
(* The lexer iterated over a well-formed statement *)

\* a field of a statement: its characters, and whether it stands in quotes
PlainField(t) == [quoted |-> FALSE, text |-> t]
QuotedField(t) == [quoted |-> TRUE, text |-> t]

\* the text between two quotes in which every quote follows a backslash
\* that escapes it, and the last character is not such a backslash
RECURSIVE WellEscaped(_)
WellEscaped(t) ==
    IF t = <<>> THEN TRUE
    ELSE IF Head(t) = BSLASH THEN Len(t) >= 2 /\ WellEscaped(Tail(Tail(t)))
    ELSE Head(t) # SQUOTE /\ WellEscaped(Tail(t))

PlainAlphabet == {"1", "(", BSLASH}
QuotedAlphabet == {"a", BSLASH, SQUOTE, ",", ")", ";"}

\* plain fields hold a character at least; none of ',', ')', quote and ';'
PlainFields ==
    {PlainField(t) : t \in SeqsUpTo(PlainAlphabet, MaxFieldLen) \ {<<>>}}
QuotedFields ==
    {QuotedField(t) : t \in {u \in SeqsUpTo(QuotedAlphabet, MaxFieldLen) : WellEscaped(u)}}
StmtFields == PlainFields \cup QuotedFields

\* the fields written next to the field under test
NeighbourFields == {PlainField(<<"1">>), QuotedField(<<BSLASH, SQUOTE, ",">>)}

\* the rows of a statement, "f" and "g" standing for the two fields drawn
StmtShapes ==
    {<< <<"f">> >>,
     << <<"f", "g">> >>,
     << <<"g", "f">>, <<"g">> >>,
     << <<"g">>, <<"f", "g">> >>,
     << <<>>, <<"g", "f", "g">> >>}

Fill(shape, f, g) ==
    [i \in 1..Len(shape) |->
        [j \in 1..Len(shape[i]) |-> IF shape[i][j] = "f" THEN f ELSE g]]

Stmts == {Fill(shape, f, g) : shape \in StmtShapes, f \in StmtFields, g \in NeighbourFields}

FieldText(f) == IF f.quoted THEN Quoted(f.text) ELSE f.text

\* the line of a statement: INSERT INTO (row),(row),...;
StmtText(s) ==
    Statement([i \in 1..Len(s) |-> RowText([j \in 1..Len(s[i]) |-> FieldText(s[i][j])])],
              <<";">>)

StmtInit ==
    /\ stmt \in Stmts
    /\ parser = from_line(StmtText(stmt))
    /\ yielded = <<>>
    /\ lex_status = "running"
    /\ last_call = [ret |-> "none", semi |-> {}]
    /\ PageOff /\ IxOff /\ LinkOff /\ IndexOff /\ PipeOff

\* `for vals in parser` over the line of the statement
StmtNext ==
    /\ stmt # <<>>
    /\ LexNext

SpecStmt == StmtInit /\ [][StmtNext]_vars

\* a quoted field's text with every escaping backslash taken out and the
\* character after it kept
RECURSIVE Unescaped(_)
Unescaped(t) ==
    IF t = <<>> THEN <<>>
    ELSE IF Head(t) = BSLASH /\ Len(t) >= 2
         THEN <<t[2]>> \o Unescaped(Tail(Tail(t)))
    ELSE <<Head(t)>> \o Unescaped(Tail(t))

\* C12 (as stated): each quoted field of a row the lexer yields has, for
\* value, its text with an escaped quote turned into the quote alone and the
\* backslash before any other character dropped.
C12_EscapesDecoded ==
    \A i \in 1..Len(yielded) :
        /\ Len(yielded[i]) = Len(stmt[i])
        /\ \A j \in 1..Len(stmt[i]) :
              stmt[i][j].quoted => yielded[i][j] = Unescaped(stmt[i][j].text)

HasEscape(t) == \E k \in 1..Len(t) : t[k] = BSLASH

\* C12 (amended): an escaped quote closes nothing (the row has the fields of
\* the statement, field for field), and the value of a quoted field is its
\* text as written: the backslash of an escaped quote, and the backslash
\* before any other character, are characters of the value.
C12_EscapesKept ==
    \A i \in 1..Len(yielded) :
        /\ Len(yielded[i]) = Len(stmt[i])
        /\ \A j \in 1..Len(stmt[i]) :
              (stmt[i][j].quoted /\ HasEscape(stmt[i][j].text)) =>
                  /\ yielded[i][j] = stmt[i][j].text
                  /\ Len(yielded[i][j]) > Len(Unescaped(stmt[i][j].text))

\* after an empty row, a row was yielded with an escaped quote in one field
\* and an escaped letter in the next, both backslashes kept
C12_Witness ==
    /\ lex_status = "ended"
    /\ Len(yielded) = 2
    /\ yielded[2] = << <<BSLASH, SQUOTE, ",">>, <<BSLASH, "a">>, <<BSLASH, SQUOTE, ",">> >>
    /\ stmt[2][2] = QuotedField(<<BSLASH, "a">>)

\* the rows the statement holds, as C19 describes them
StmtRows(s) == [i \in 1..Len(s) |-> [j \in 1..Len(s[i]) |-> s[i][j].text]]

\* C19: on a well-formed statement the lexer yields one row for each group
\* in parentheses, in order, each with its fields in order: a plain field is
\* the characters up to the next ',' or ')', a quoted field the characters
\* between its quotes, '(' ')' ',' inside them included; then the iteration
\* ends with None.
C19_WellFormedRows ==
    /\ lex_status # "panicked"
    /\ Len(yielded) <= Len(stmt)
    /\ yielded = SubSeq(StmtRows(stmt), 1, Len(yielded))
    /\ lex_status = "ended" => Len(yielded) = Len(stmt)

\* two rows were yielded, a quoted field of the first holding ',' and ')'
C19_Witness ==
    /\ lex_status = "ended"
    /\ yielded = << << <<BSLASH, SQUOTE, ",">>, <<",", ")">> >>, << <<BSLASH, SQUOTE, ",">> >> >>
    /\ stmt[1][2].quoted

----------------------------------------------------------------------------
(* The decode stage of a link run on its own: parsing_worker over queued    *)
(* lines, the producer having finished                                      *)

\* the Page Index of Scenario B: a page of id 10, and ("Foo Bar", 0) -> 20
ScenarioIndex ==
    MapOf({[pageid |-> 10, namespace |-> 0, title |-> <<"X">>],
           [pageid |-> 20, namespace |-> 0, title |-> <<"F", "o", "o", " ", "B", "a", "r">>]})

ScenarioIndexes ==
    {ScenarioIndex,
     EmptyMap,
     MapOf({[pageid |-> 20, namespace |-> 0, title |-> <<"F", "o", "o", " ", "B", "a", "r">>]}),
     MapOf({[pageid |-> 10, namespace |-> 0, title |-> <<"X">>],
            [pageid |-> 20, namespace |-> 1, title |-> <<"F", "o", "o", " ", "B", "a", "r">>]})}

ScenarioInit ==
    /\ mode = "links" /\ ignore_errors = FALSE /\ encyclopedia = FALSE
    /\ pages \in ScenarioIndexes
    /\ pageids = PageIdsOf(pages)
    /\ readlog \in {<<a>> : a \in ScenarioLines} \cup {<<a, b>> : a, b \in ScenarioLines}
    /\ lines_q = readlog
    /\ main_pc = "join_parse" /\ nread = Len(readlog) /\ err_at = 0 /\ in_hand = ""
    /\ result = "none" /\ first_err = "none"
    /\ lines_tx = FALSE /\ lines_rx = TRUE
    /\ parse_pc = "recv" /\ parse_res = "none" /\ decoded = <<>>
    /\ triples_q = <<>> /\ triples_tx = TRUE /\ triples_rx = TRUE
    /\ write_pc = "recv" /\ write_res = "none" /\ out_buf = <<>> /\ out_file = <<>>
    /\ LexOff /\ PageOff /\ IxOff /\ LinkOff

ScenarioNext == ParseRecv \/ ParseClosed \/ ParseRow

SpecScenario == ScenarioInit /\ [][ScenarioNext]_vars

\* <10> <linksto> <20> .
TenLinksToTwenty ==
    <<"<", "1", "0", ">", " ", "<", "l", "i", "n", "k", "s", "t", "o", ">", " ",
      "<", "2", "0", ">", " ", ".">>

\* C13 (as stated): with the index of Scenario B, the decode stage given the
\* row (10, 0, 'Foo_Bar', 0), a blank after each comma, does not abort and
\* emits the one triple <10> <linksto> <20> .
C13_ScenarioBSpaced ==
    (pages = ScenarioIndex /\ readlog = <<"b_spaced">>) =>
        /\ parse_res \in {"none", "ok"}
        /\ parse_pc = "done" => triples_q = <<TenLinksToTwenty>>

\* C13 (amended): the same for the row (10,0,'Foo_Bar',0), written as the
\* dumps write it, without blanks.
C13_ScenarioB ==
    (pages = ScenarioIndex /\ readlog = <<"b_plain">>) =>
        /\ parse_res \in {"none", "ok"}
        /\ triples_q \in {<<>>, <<TenLinksToTwenty>>}
        /\ parse_pc = "done" => (triples_q = <<TenLinksToTwenty>> /\ decoded = <<"Sent">>)

\* the decode stage ended on the row without blanks, its triple sent
C13_Witness ==
    /\ pages = ScenarioIndex /\ readlog = <<"b_plain">>
    /\ parse_pc = "done" /\ parse_res = "ok"
    /\ triples_q = <<TenLinksToTwenty>>

----------------------------------------------------------------------------
(* The decode stage of a page run on its own: parsing_worker over queued    *)
(* lines, the producer having finished and waiting to join it               *)

FilterInit ==
    /\ mode = "pages" /\ ignore_errors = FALSE /\ encyclopedia \in BOOLEAN
    /\ pages = EmptyMap /\ pageids = {}
    /\ readlog \in {<<a>> : a \in FilterLines} \cup {<<a, b>> : a, b \in FilterLines}
    /\ lines_q = readlog
    /\ main_pc = "join_parse" /\ nread = Len(readlog) /\ err_at = 0 /\ in_hand = ""
    /\ result = "none" /\ first_err = "none"
    /\ lines_tx = FALSE /\ lines_rx = TRUE
    /\ parse_pc = "recv" /\ parse_res = "none" /\ decoded = <<>>
    /\ triples_q = <<>> /\ triples_tx = TRUE /\ triples_rx = TRUE
    /\ write_pc = "recv" /\ write_res = "none" /\ out_buf = <<>> /\ out_file = <<>>
    /\ LexOff /\ PageOff /\ IxOff /\ LinkOff

FilterNext == ParseRecv \/ ParseClosed \/ ParseRow \/ MainJoinParse

SpecFilter == FilterInit /\ [][FilterNext]_vars

\* the rows of the lines of the filter runs
FilterRowsOf == [name \in FilterLines |-> AllRows(DumpLine(name)).rows]

\* the rows of the lines read, in the order the decode stage meets them
RowsRead == Flatten([k \in 1..Len(readlog) |-> FilterRowsOf[readlog[k]]])

\* the row decodes and its Page passes the filter
Passes(vals, ency) ==
    /\ Page_from_sql(vals).ok
    /\ ency => Page_from_sql(vals).val.namespace = 0

\* the texts pushed to the writer for the rows given, in order
PushedFor(rows, ency) ==
    Flatten([i \in 1..Len(rows) |->
                IF Passes(rows[i], ency) THEN <<Page_to_rdf(Page_from_sql(rows[i]).val)>>
                ELSE <<>>])

\* C21: in a page run, the triples pushed to the writer are those of the
\* rows met so far that decode to a Page and, when the encyclopedia filter is
\* on, to a Page of namespace 0; with the filter off they are those of every
\* row that decodes.  A row that does not decode is the last row met,
\* whatever its namespace field holds and whether the filter is on or off:
\* the decode stage stops with the SQL error, nothing is pushed for the row
\* or after it, and the run returns that error.
C21_NamespaceFilter ==
    LET rows == RowsRead
        n == Len(decoded)
    IN /\ n <= Len(rows)
       /\ triples_q = PushedFor(SubSeq(rows, 1, n), encyclopedia)
       /\ \A i \in 1..n :
             /\ (decoded[i] = "Sent") <=> Passes(rows[i], encyclopedia)
             /\ (decoded[i] = "SQL") <=> ~Page_from_sql(rows[i]).ok
             /\ ~Page_from_sql(rows[i]).ok =>
                   /\ i = n
                   /\ parse_pc = "done" /\ parse_res = "schema"
                   /\ main_pc \in {"join_parse", "returned"}
                   /\ main_pc = "returned" => result = "schema"
       /\ parse_res = "ok" => n = Len(rows)
       /\ main_pc = "join_write" => parse_res = "ok"

\* with the filter on, a row of namespace 1 was skipped, a row of namespace 0
\* pushed, and then a row too short that carries namespace 1 ended the run
C21_Witness ==
    /\ encyclopedia /\ readlog = <<"f_ns1_ns0", "f_short_ns1">>
    /\ decoded = <<"Filtered", "Sent", "SQL">>
    /\ Len(triples_q) = 1
    /\ RowsRead[3][2] = <<"1">>
    /\ main_pc = "returned" /\ result = "schema"

----------------------------------------------------------------------------
(* Page::from_rdf on a list of lines of its own *)

RdfLineSet ==
    {PageLines(pg)[i] : pg \in ModelPages, i \in 1..2}
        \cup {<<>>, <<"#", "c">>, <<"<", "x", ".">>, <<"x">>}
        \cup {AttributeTriple(<<"1">>, TitleWord, <<"7">>)}

RdfInit ==
    /\ pg_pc = "from_rdf" /\ row = <<>> /\ sql_res = Err("none") /\ rdf_text = <<>>
    /\ rdf_lines \in SeqsUpTo(RdfLineSet, MaxRdfLines)
    /\ rdf_res = Err("none")
    /\ LexOff /\ IxOff /\ LinkOff /\ IndexOff /\ PipeOff

RdfNext == PgFromRdf

SpecRdf == RdfInit /\ [][RdfNext]_vars

\* the first two lines of a list that are neither empty nor comments
FirstTwoUsable(lines) ==
    LET kept == SelectSeq(lines, LAMBDA l : ~Skipped(l))
    IN IF Len(kept) <= 2 THEN kept ELSE SubSeq(kept, 1, 2)

\* C16: the result of Page::from_rdf, the Page or the error, is the result
\* on the first two usable lines alone: the lines after them change nothing
\* and raise no error, whatever they hold.
C16_OnlyFirstTwoLines ==
    (pg_pc = "done") => rdf_res = Page_from_rdf(FirstTwoUsable(rdf_lines))

\* the line of the pair a, b that carries the predicate pred; none: <<>>
Carrying(pred, a, b) ==
    IF a.ok /\ a.val[2] = pred THEN a.val
    ELSE IF b.ok /\ b.val[2] = pred THEN b.val
    ELSE <<>>

\* C22: when Page::from_rdf returns a Page for two usable lines, one of the
\* lines carries the namespace predicate and the other the title predicate,
\* in either order; the Page's namespace is the number the namespace line
\* holds and its title the value of the title line, as it stands.  Two lines
\* of the same predicate give no Page.
C22_PredicateDriven ==
    LET kept == SelectSeq(rdf_lines, LAMBDA l : ~Skipped(l))
    IN (pg_pc = "done" /\ Len(kept) = 2) =>
          LET a == match_triple(Trim(kept[1]))
              b == match_triple(Trim(kept[2]))
          IN /\ (a.ok /\ b.ok /\ a.val[2] = b.val[2]) => ~rdf_res.ok
             /\ rdf_res.ok =>
                   /\ a.ok /\ b.ok /\ a.val[2] # b.val[2]
                   /\ rdf_res.val.namespace = ParseUInt(Carrying(NamespaceWord, a, b)[3])
                   /\ rdf_res.val.title = Carrying(TitleWord, a, b)[3]

====
